---- MODULE Spec2Model ----
(***************************************************************************)
(* State-machine model of freediscovery/categorization.py:                 *)
(*   - NearestNeighborRanker (__init__, fit, kneighbors, _ranking_score),  *)
(*     with _unzip_relevant and _chunk_kneighbors;                         *)
(*   - _CategorizerWrapper (train, predict).                               *)
(*                                                                         *)
(* Numbers.  The code computes with floats; the model computes with exact  *)
(* fixed-point integers whose unit is 1/One.  Feature vectors are points   *)
(* of a line (n_features = 1) with integer coordinates, so the Euclidean   *)
(* distance of a and b is |a - b|, i.e. One * |a - b| in fixed point, and  *)
(* the two halvings of the code (D = dist / 2, score = (...) / 2) are      *)
(* exact.  Float rounding is outside the model.                            *)
(***************************************************************************)
EXTENDS Integers, Sequences, FiniteSets, TLC

\* ----------------------------------------------------------------- bounds
MaxTrain == 2      \* rows of a training matrix
MaxQuery == 1      \* rows of a query matrix, for a ranker that is fitted again and again
MaxRows == 3       \* rows of a query matrix, for a ranker that is fitted once
MaxBatch == 2      \* batch sizes 1..MaxBatch

\* Coordinates of the feature vectors: of the training rows, and of the query
\* rows.  Distances 1 and 2 are those of L2 normalised data (at most 2); 7 and
\* 9 are not.
TrainCoords == {0, 2}
Coords == {0, 1, 2, 9}
OnceCoords == {0, 1, 2}     \* query rows of a ranker that is fitted once

\* The float 1.0 in fixed point: a multiple of 4, so that halving twice is exact.
One == 2 * 2

VARIABLES
    ranking_,     \* NearestNeighborRanker.ranking_ ; NoRanker before construction
    has_index,    \* whether the attributes _index_p, _index_n exist
    index_p,      \* _index_p : global (0-based) row ids of the positive samples
    index_n,      \* _index_n : global (0-based) row ids of the negative samples
    mod_p,        \* _mod_p : the rows the positive index was fitted on (NotFit: _fit_method is None)
    mod_n,        \* _mod_n : the rows the negative index was fitted on (NotFit: _fit_method is None)
    res,          \* outcome of the last ranker call
    cmod,         \* _CategorizerWrapper.cmod : the trained backend (NoModel: None)
    mid,          \* _CategorizerWrapper.mid  : its model id (0: None)
    fs,           \* model directories and the artifacts dumped into them
    wres          \* outcome of the last wrapper call

rvars == <<ranking_, has_index, index_p, index_n, mod_p, mod_n, res>>
wvars == <<cmod, mid, fs, wres>>
vars == <<ranking_, has_index, index_p, index_n, mod_p, mod_n, res, cmod, mid, fs, wres>>

\* ------------------------------------------------------------ small helpers
NoRanker == "none"
NotFit == <<>>          \* an index is always fitted on at least one row
None == <<>>            \* d_n=None; an (n,) array of a checked X has n >= 1 entries

Min(a, b) == IF a < b THEN a ELSE b
Abs(a) == IF a < 0 THEN -a ELSE a

SeqsUpTo(S, lo, hi) == UNION {[1..n -> S] : n \in lo..hi}

\* metric='euclidean' on one feature, in fixed point
euclidean(a, b) == One * Abs(a - b)

\* np.arange(n): the global row ids 0..n-1
arange(n) == [k \in 1..n |-> k - 1]

\* ------------------------------------------------------------ _unzip_relevant
RECURSIVE masked(_, _, _, _)
masked(idx_id, mask, keep, k) ==
    IF k > Len(idx_id) THEN <<>>
    ELSE (IF mask[k] = keep THEN <<idx_id[k]>> ELSE <<>>) \o masked(idx_id, mask, keep, k + 1)

\* mask = y > 0.5 ; returns idx_id[mask], idx_id[~mask]
unzip_relevant(idx_id, y) ==
    LET mask == [k \in 1..Len(y) |-> 2 * y[k] > 1]
    IN  <<masked(idx_id, mask, TRUE, 1), masked(idx_id, mask, FALSE, 1)>>

\* X[index] : the rows of X with the given global ids
rows(X, index) == [k \in 1..Len(index) |-> X[index[k] + 1]]

\* ------------------------------------------- NearestNeighbors(n_neighbors=1)
\* local (0-based) position of the row of fit_X nearest to q; the first of
\* several equally near rows
nearest(fit_X, q) ==
    CHOOSE j \in 1..Len(fit_X) :
        /\ \A k \in 1..Len(fit_X) : euclidean(q, fit_X[j]) <= euclidean(q, fit_X[k])
        /\ \A k \in 1..(j - 1) : euclidean(q, fit_X[k]) > euclidean(q, fit_X[j])

\* NearestNeighbors.kneighbors(X) -> (dist, ind), both of shape (n, 1)
mod_kneighbors(fit_X, X) ==
    [dist |-> [i \in 1..Len(X) |-> <<euclidean(X[i], fit_X[nearest(fit_X, X[i])])>>],
     ind  |-> [i \in 1..Len(X) |-> <<nearest(fit_X, X[i]) - 1>>]]

\* ---------------------------------------------------------- _chunk_kneighbors
\* the number of batches without the last, partial one
n_batches_floor(n_samples, batch_size) == n_samples \div batch_size

\* range(n_samples//batch_size + int(n_samples % batch_size != 0))
n_batches(n_samples, batch_size) ==
    (n_samples \div batch_size) + (IF n_samples % batch_size # 0 THEN 1 ELSE 0)

\* X[slice(k*batch_size, min((k+1)*batch_size, n_samples)), :]
mslice(X, k, batch_size) ==
    SubSeq(X, k * batch_size + 1, Min((k + 1) * batch_size, Len(X)))

\* func is the bound method fit_X.kneighbors
chunk_kneighbors(fit_X, X, batch_size) ==
    LET nb == n_batches(Len(X), batch_size)
        dist_arr[k \in 0..nb] ==
            IF k = 0 THEN <<>>
            ELSE dist_arr[k - 1] \o mod_kneighbors(fit_X, mslice(X, k - 1, batch_size)).dist
        ind_arr[k \in 0..nb] ==
            IF k = 0 THEN <<>>
            ELSE ind_arr[k - 1] \o mod_kneighbors(fit_X, mslice(X, k - 1, batch_size)).ind
    IN  [dist |-> dist_arr[nb], ind |-> ind_arr[nb]]

\* ------------------------------------------------------------- _ranking_score
\* _ranking_score without the final division by 2
ranking_score_unhalved(d_p, d_n) ==
    LET S_p == [i \in 1..Len(d_p) |-> One - d_p[i]]
    IN  IF d_n # None
        THEN LET S_n == [i \in 1..Len(d_n) |-> One - d_n[i]]
             IN  [i \in 1..Len(d_p) |->
                    (IF S_p[i] > S_n[i] THEN S_p[i] + One ELSE -One - S_n[i])]
        ELSE [i \in 1..Len(d_p) |-> (S_p[i] + One)]

\* _ranking_score with the comparison of S_p and S_n reversed
ranking_score_swapped(d_p, d_n) ==
    LET S_p == [i \in 1..Len(d_p) |-> One - d_p[i]]
    IN  IF d_n # None
        THEN LET S_n == [i \in 1..Len(d_n) |-> One - d_n[i]]
             IN  [i \in 1..Len(d_p) |->
                    (IF S_p[i] < S_n[i] THEN S_p[i] + One ELSE -One - S_n[i]) \div 2]
        ELSE [i \in 1..Len(d_p) |-> (S_p[i] + One) \div 2]

\* _ranking_score with ties resolved to the positive branch
ranking_score_flipped(d_p, d_n) ==
    LET S_p == [i \in 1..Len(d_p) |-> One - d_p[i]]
    IN  IF d_n # None
        THEN LET S_n == [i \in 1..Len(d_n) |-> One - d_n[i]]
             IN  [i \in 1..Len(d_p) |->
                    (IF S_p[i] >= S_n[i] THEN S_p[i] + One ELSE -One - S_n[i]) \div 2]
        ELSE [i \in 1..Len(d_p) |-> (S_p[i] + One) \div 2]

\* np.where(S_p > S_n, S_p + 1, -1 - S_n) / 2, or (S_p + 1) / 2 without d_n
ranking_score(d_p, d_n) ==
    LET S_p == [i \in 1..Len(d_p) |-> One - d_p[i]]
    IN  IF d_n # None
        THEN LET S_n == [i \in 1..Len(d_n) |-> One - d_n[i]]
             IN  [i \in 1..Len(d_p) |->
                    (IF S_p[i] > S_n[i] THEN S_p[i] + One ELSE -One - S_n[i]) \div 2]
        ELSE [i \in 1..Len(d_p) |-> (S_p[i] + One) \div 2]

\* ------------------------------------------------------------------ outcomes
NoPositive == "Training sets with no positive labels are not supported!"

Outcome(op, status, msg) ==
    [op |-> op, status |-> status, msg |-> msg, y |-> <<>>, X |-> <<>>, batch_size |-> 0,
     score |-> <<>>, ind |-> <<>>, dist_p |-> <<>>, ind_p |-> <<>>,
     has_n |-> FALSE, dist_n |-> <<>>, ind_n |-> <<>>]

\* ------------------------------------------------------------------ __init__
\* A new ranker object takes the place of the one before it; an invalid ranking
\* raises and leaves no object.
init(ranking) ==
    /\ res.op = "none"
    /\ IF ranking \notin {"supervised", "unsupervised"}
       THEN /\ res' = Outcome("init", "ValueError", "")
            /\ ranking_' = NoRanker
       ELSE /\ res' = Outcome("init", "ok", "")
            /\ ranking_' = ranking
    /\ has_index' = FALSE
    /\ index_p' = <<>>
    /\ index_n' = <<>>
    /\ mod_p' = NotFit
    /\ mod_n' = NotFit
    /\ UNCHANGED wvars

\* ----------------------------------------------------------------------- fit
\* y has one label per row of X.  The outcome of a fit records its labels.

\* fit with the negative index fitted before the positive samples are checked
fit_negative_first(X, y) ==
    /\ res.op = "none"
    /\ ranking_ # NoRanker
    /\ Len(y) = Len(X)
    /\ LET parts == unzip_relevant(arange(Len(X)), y)
       IN  IF Len(X) = 0
           THEN /\ res' = [Outcome("fit", "ValueError", "check_array") EXCEPT !.y = y]
                /\ UNCHANGED <<has_index, index_p, index_n, mod_p, mod_n>>
           ELSE /\ has_index' = TRUE
                /\ index_p' = parts[1]
                /\ index_n' = parts[2]
                /\ mod_n' = IF Len(parts[2]) > 0 THEN rows(X, parts[2]) ELSE mod_n
                /\ IF Len(parts[1]) > 0
                   THEN /\ mod_p' = rows(X, parts[1])
                        /\ res' = [Outcome("fit", "ok", "") EXCEPT !.y = y]
                   ELSE /\ mod_p' = mod_p
                        /\ res' = [Outcome("fit", "ValueError", NoPositive) EXCEPT !.y = y]
    /\ UNCHANGED <<ranking_, wvars>>

fit(X, y) ==
    /\ res.op = "none"
    /\ ranking_ # NoRanker
    /\ Len(y) = Len(X)
    /\ LET parts == unzip_relevant(arange(Len(X)), y)
       IN  IF Len(X) = 0
           THEN \* check_array: a matrix of 0 rows is rejected before anything is assigned
                /\ res' = [Outcome("fit", "ValueError", "check_array") EXCEPT !.y = y]
                /\ UNCHANGED <<has_index, index_p, index_n, mod_p, mod_n>>
           ELSE \* self._index_p, self._index_n = _unzip_relevant(index, y)
                /\ has_index' = TRUE
                /\ index_p' = parts[1]
                /\ index_n' = parts[2]
                /\ IF Len(parts[1]) > 0
                   THEN /\ mod_p' = rows(X, parts[1])
                        /\ mod_n' = IF Len(parts[2]) > 0 THEN rows(X, parts[2]) ELSE mod_n
                        /\ res' = [Outcome("fit", "ok", "") EXCEPT !.y = y]
                   ELSE /\ res' = [Outcome("fit", "ValueError", NoPositive) EXCEPT !.y = y]
                        /\ UNCHANGED <<mod_p, mod_n>>
    /\ UNCHANGED <<ranking_, wvars>>

\* ---------------------------------------------------------------- kneighbors
\* D[:,0] / 2 : first column of an (n, 1) distance array, halved
halved(dist) == [i \in 1..Len(dist) |-> dist[i][1] \div 2]

\* idx_loc[:,0] : first column of an (n, 1) index array
column0(idx_loc) == [i \in 1..Len(idx_loc) |-> idx_loc[i][1]]

\* index[idx] raises IndexError when a local position is outside index
in_bounds(index, idx) == \A i \in 1..Len(idx) : idx[i] < Len(index)

\* index[idx] : local positions mapped to global row ids
remap(index, idx) == [i \in 1..Len(idx) |-> index[idx[i] + 1]]

\* np.where(D_p <= D_n, ind_p, ind_n)
where_nearest(D_p, D_n, ind_p, ind_n) ==
    [i \in 1..Len(D_p) |-> IF D_p[i] <= D_n[i] THEN ind_p[i] ELSE ind_n[i]]

\* the score whatever ranking_ says
score_of_ignoring_mode(ranking, D_p, D_n) == ranking_score(D_p, D_n)

\* if self.ranking_ == 'supervised': ... elif self.ranking_ == 'unsupervised': ...
score_of(ranking, D_p, D_n) ==
    IF ranking = "supervised" THEN ranking_score(D_p, D_n) ELSE ranking_score(D_p, None)

\* what kneighbors(X, batch_size) returns or raises in the current state
kneighbors_result(X, batch_size) ==
    IF Len(X) = 0 THEN Outcome("kneighbors", "ValueError", "check_array")
    ELSE IF mod_p = NotFit THEN Outcome("kneighbors", "NotFittedError", "")
    ELSE
    LET r_p == chunk_kneighbors(mod_p, X, batch_size)
        D_p == halved(r_p.dist)
        idx_p_loc == column0(r_p.ind)
    IN  IF ~in_bounds(index_p, idx_p_loc) THEN Outcome("kneighbors", "IndexError", "")
        ELSE
        LET ind_p == remap(index_p, idx_p_loc)
        IN  IF mod_n # NotFit
            THEN LET r_n == chunk_kneighbors(mod_n, X, batch_size)
                     D_n == halved(r_n.dist)
                     idx_n_loc == column0(r_n.ind)
                 IN  IF ~in_bounds(index_n, idx_n_loc)
                     THEN Outcome("kneighbors", "IndexError", "")
                     ELSE
                     LET ind_n == remap(index_n, idx_n_loc)
                         ind == IF ranking_ = "supervised"
                                THEN where_nearest(D_p, D_n, ind_p, ind_n)
                                ELSE ind_p
                     IN  IF ranking_ \notin {"supervised", "unsupervised"}
                         THEN Outcome("kneighbors", "ValueError", "")
                         ELSE [op |-> "kneighbors", status |-> "ok", msg |-> "", y |-> <<>>,
                               X |-> X, batch_size |-> batch_size,
                               score |-> score_of(ranking_, D_p, D_n),
                               ind |-> ind, dist_p |-> D_p, ind_p |-> ind_p,
                               has_n |-> TRUE, dist_n |-> D_n, ind_n |-> ind_n]
            ELSE IF ranking_ \notin {"supervised", "unsupervised"}
                 THEN Outcome("kneighbors", "ValueError", "")
                 ELSE [op |-> "kneighbors", status |-> "ok", msg |-> "", y |-> <<>>,
                       X |-> X, batch_size |-> batch_size,
                       score |-> score_of(ranking_, D_p, None),
                       ind |-> ind_p, dist_p |-> D_p, ind_p |-> ind_p,
                       has_n |-> FALSE, dist_n |-> <<>>, ind_n |-> <<>>]

kneighbors(X, batch_size) ==
    /\ res.op = "none"
    /\ ranking_ # NoRanker
    /\ res' = kneighbors_result(X, batch_size)
    /\ UNCHANGED <<ranking_, has_index, index_p, index_n, mod_p, mod_n, wvars>>

\* the call returns (or raises): the caller takes the outcome
returned ==
    /\ res.op # "none"
    /\ res' = Outcome("none", "ok", "")
    /\ UNCHANGED <<ranking_, has_index, index_p, index_n, mod_p, mod_n, wvars>>

\* ------------------------------------------------------- _CategorizerWrapper
MaxModels == 3     \* model directories setup_model may create

NoModel == "None"
NotTrained == "The model must be trained first, or sid must be provided"

valid_methods == {"LinearSVC", "LogisticRegression", "xgboost",
                  "NearestCentroid", "NearestNeighbor"}

Methods == valid_methods \cup {"ensemble-stacking", "MLPClassifier", "RandomForest"}
CVs == {"None", "fast", "full", "5-fold"}

WOutcome(op, status, msg, method, cv) ==
    [op |-> op, status |-> status, msg |-> msg, method |-> method, cv |-> cv]

\* _build_estimator: "ok" or the exception it raises.  xgb and extra say
\* whether xgboost and freediscovery_extra can be imported.
build_estimator(method, cv, xgb, extra) ==
    IF method \in {"LinearSVC", "LogisticRegression"}
    THEN IF cv = "None" THEN "ok"
         ELSE IF extra THEN "ok" ELSE "OptionalDependencyMissing"
    ELSE IF method \in {"NearestCentroid", "NearestNeighbor"} THEN "ok"
    ELSE IF method = "xgboost"
    THEN IF ~xgb THEN "OptionalDependencyMissing"
         ELSE IF extra THEN "ok" ELSE "OptionalDependencyMissing"
    ELSE IF method = "MLPClassifier"
    THEN IF cv # "None" THEN "NotImplementedFD" ELSE "ok"
    ELSE "WrongParameter"

\* the checks at the head of train: "" or the message of the WrongParameter raised
train_rejection(method, cv) ==
    IF method \in {"ensemble-stacking", "MLPClassifier"} THEN "disabled"
    ELSE IF method \notin valid_methods THEN "not supported"
    ELSE IF cv # "None" /\ method \in {"NearestNeighbor", "NearestCentroid"}
         THEN "Cross validation not supported"
    ELSE IF cv \notin {"None", "fast", "full"} THEN "cv"
    ELSE ""

\* cmod.fit(X_train, Y_train): NearestNeighborRanker.fit raises without a
\* positive label; the scikit-learn estimators succeed or raise (fit_ok)
estimator_fit(method, y, fit_ok) ==
    IF method = "NearestNeighbor"
    THEN (IF Len(unzip_relevant(arange(Len(y)), y)[1]) > 0 THEN "ok" ELSE "ValueError")
    ELSE (IF fit_ok THEN "ok" ELSE "ValueError")

\* train from setup_model on: the model directory, the fit, the two dumps
train_body(y, method, cv, fit_ok) ==
    LET new == fs.dirs + 1
        fitted == estimator_fit(method, y, fit_ok)
    IN  IF fitted # "ok"
        THEN /\ fs' = [fs EXCEPT !.dirs = new, !.fits = @ + 1]
             /\ wres' = WOutcome("train", fitted, "", method, cv)
             /\ UNCHANGED <<cmod, mid>>
        ELSE /\ fs' = [dirs |-> new, fits |-> fs.fits + 1,
                       model |-> fs.model \cup {new}, pars |-> fs.pars \cup {new}]
             /\ mid' = new
             /\ cmod' = method
             /\ wres' = WOutcome("train", "ok", "", method, cv)

\* train with the two cv checks made after setup_model
train_cv_checked_late(y, method, cv, xgb, extra, fit_ok) ==
    /\ wres.op = "none"
    /\ train_rejection(method, "None") = "" => fs.dirs < MaxModels
    /\ LET why == train_rejection(method, "None")
           built == build_estimator(method, cv, xgb, extra)
       IN  IF why # ""
           THEN /\ wres' = WOutcome("train", "WrongParameter", why, method, cv)
                /\ UNCHANGED <<cmod, mid, fs>>
           ELSE IF train_rejection(method, cv) # ""
           THEN /\ fs' = [fs EXCEPT !.dirs = @ + 1]
                /\ wres' = WOutcome("train", "WrongParameter", train_rejection(method, cv),
                                    method, cv)
                /\ UNCHANGED <<cmod, mid>>
           ELSE IF built # "ok"
           THEN /\ wres' = WOutcome("train", built, "", method, cv)
                /\ UNCHANGED <<cmod, mid, fs>>
           ELSE train_body(y, method, cv, fit_ok)
    /\ UNCHANGED rvars

\* xgb, extra: whether the optional packages import; fit_ok: whether the fit of
\* a scikit-learn estimator succeeds
train(y, method, cv, xgb, extra, fit_ok) ==
    /\ wres.op = "none"
    \* setup_model is reached at most MaxModels times
    /\ (train_rejection(method, cv) = "" /\ build_estimator(method, cv, xgb, extra) = "ok")
          => fs.dirs < MaxModels
    /\ LET why == train_rejection(method, cv)
           built == build_estimator(method, cv, xgb, extra)
       IN  IF why # ""
           THEN /\ wres' = WOutcome("train", "WrongParameter", why, method, cv)
                /\ UNCHANGED <<cmod, mid, fs>>
           ELSE IF built # "ok"
           THEN /\ wres' = WOutcome("train", built, "", method, cv)
                /\ UNCHANGED <<cmod, mid, fs>>
           ELSE train_body(y, method, cv, fit_ok)
    /\ UNCHANGED rvars

\* predict: which scoring call the model is dispatched to
dispatch(m) ==
    IF m = "NearestNeighbor" THEN "kneighbors"
    ELSE IF m = "xgboost" THEN "logit(predict_proba)"
    ELSE "decision_function"

predict ==
    /\ wres.op = "none"
    /\ IF cmod # NoModel
       THEN wres' = WOutcome("predict", "ok", dispatch(cmod), cmod, "None")
       ELSE wres' = WOutcome("predict", "WrongParameter", NotTrained, "None", "None")
    /\ UNCHANGED <<cmod, mid, fs, rvars>>

\* the call returns (or raises): the caller takes the outcome
wreturned ==
    /\ wres.op # "none"
    /\ wres' = WOutcome("none", "ok", "", "None", "None")
    /\ UNCHANGED <<cmod, mid, fs, rvars>>

\* ------------------------------------------------------------ specifications
Labels == {0, 1}
Rankings == {"supervised", "unsupervised", "semi-supervised"}

\* No ranker is constructed yet.  The wrapper was constructed without a mid:
\* _BaseWrapper.__init__ (base.py) then loads no model and cmod is None.
Init ==
    /\ ranking_ = NoRanker
    /\ has_index = FALSE
    /\ index_p = <<>>
    /\ index_n = <<>>
    /\ mod_p = NotFit
    /\ mod_n = NotFit
    /\ res = Outcome("none", "ok", "")
    /\ cmod = NoModel
    /\ mid = 0
    /\ fs = [dirs |-> 0, fits |-> 0, model |-> {}, pars |-> {}]
    /\ wres = WOutcome("none", "ok", "", "None", "None")

\* a ranker object that is fitted any number of times
Next ==
    \/ \E ranking \in Rankings : init(ranking)
    \/ \E X \in SeqsUpTo(TrainCoords, 0, MaxTrain) : \E y \in [1..Len(X) -> Labels] :
          fit(X, y)
    \/ \E X \in SeqsUpTo(Coords, 0, MaxQuery) : \E batch_size \in 1..MaxBatch :
          kneighbors(X, batch_size)
    \/ returned

Spec == Init /\ [][Next]_vars

\* a ranker object that is fitted once, as _build_estimator and train use it
NextOnce ==
    \/ \E ranking \in Rankings : init(ranking)
    \/ \E X \in SeqsUpTo(TrainCoords, 0, MaxTrain) : \E y \in [1..Len(X) -> Labels] :
          ~has_index /\ fit(X, y)
    \/ \E X \in SeqsUpTo(OnceCoords, 0, MaxRows) : \E batch_size \in 1..MaxBatch :
          kneighbors(X, batch_size)
    \/ returned

SpecOnce == Init /\ [][NextOnce]_vars

NextWrapper ==
    \/ \E y \in SeqsUpTo(Labels, 1, MaxTrain) : \E method \in Methods : \E cv \in CVs :
          \E xgb \in BOOLEAN : \E extra \in BOOLEAN : \E fit_ok \in BOOLEAN :
             train(y, method, cv, xgb, extra, fit_ok)
    \/ predict
    \/ wreturned

SpecWrapper == Init /\ [][NextWrapper]_vars

\* ===================================================================== claims
KnOk == res.op = "kneighbors" /\ res.status = "ok"
QRows == 1..Len(res.X)

\* the last fit call on this ranker succeeded: both partitions belong to the
\* fitted positive index
FitOk == has_index /\ mod_p # NotFit /\ Len(index_p) = Len(mod_p)

\* (1 - D_p + 1) / 2 for every row
PositiveOnly(D_p) == [i \in 1..Len(D_p) |-> (One - D_p[i] + One) \div 2]

\* C1: chunking invariance.  A successful kneighbors(X, batch_size) returns what
\* every other batch size returns for the same X, and its distances and
\* indices are those of one unchunked call of the index on X, row for row.
C1_ChunkingInvariance ==
    KnOk =>
        /\ \A B \in 1..(Len(res.X) + 1) :
              kneighbors_result(res.X, B) = [res EXCEPT !.batch_size = B]
        /\ chunk_kneighbors(mod_p, res.X, res.batch_size) = mod_kneighbors(mod_p, res.X)
        /\ res.dist_p = halved(mod_kneighbors(mod_p, res.X).dist)
        /\ res.ind_p = remap(index_p, column0(mod_kneighbors(mod_p, res.X).ind))
        /\ res.has_n =>
              /\ chunk_kneighbors(mod_n, res.X, res.batch_size) = mod_kneighbors(mod_n, res.X)
              /\ res.dist_n = halved(mod_kneighbors(mod_n, res.X).dist)
              /\ res.ind_n = remap(index_n, column0(mod_kneighbors(mod_n, res.X).ind))

\* three rows in two batches, the last one partial, with rows that score differently
C1_Witness ==
    /\ KnOk
    /\ Len(res.X) = 3
    /\ res.batch_size = 2
    /\ res.has_n
    /\ res.score[1] # res.score[3]
    /\ res.ind[1] # res.ind[3]

\* C2 as stated: every score returned lies in [-1, 1], whatever the input.
C2_ScoreRangeAnyInput ==
    KnOk => \A i \in QRows : -One <= res.score[i] /\ res.score[i] <= One

\* C2 amended: a row whose halved distances to the nearest exemplars are at most
\* 4 (on L2 normalised data they are at most 1) has a score in [-1, 1].
C2_ScoreRangeBoundedDistance ==
    KnOk =>
        \A i \in QRows :
            (/\ res.dist_p[i] <= 4 * One
             /\ res.has_n => res.dist_n[i] <= 4 * One)
            => (-One <= res.score[i] /\ res.score[i] <= One)

\* a supervised row farther from both exemplars than L2 normalised rows can be,
\* within the bound, scored on the negative branch
C2_Witness ==
    /\ KnOk
    /\ res.has_n
    /\ ranking_ = "supervised"
    /\ \E i \in QRows :
          /\ res.dist_p[i] > One /\ res.dist_p[i] <= 4 * One
          /\ res.dist_n[i] > One /\ res.dist_n[i] <= 4 * One
          /\ 2 * res.score[i] = -One - (One - res.dist_n[i])

\* C3 as stated: once the last fit had positives and no negatives, the negative
\* index is unset, and kneighbors on a non-empty X does not raise, scores every
\* row (1 - D_p + 1)/2 and returns ind_p.
C3_DegenerateUnsupervised ==
    (has_index /\ index_p # <<>> /\ index_n = <<>>) =>
        /\ mod_n = NotFit
        /\ (res.op = "kneighbors" /\ res.msg # "check_array") =>
              /\ res.status = "ok"
              /\ res.score = PositiveOnly(res.dist_p)
              /\ res.ind = res.ind_p

\* C4: a fit whose labels hold no positive sample raises ValueError and leaves
\* both fitted indices as they were.
C4_NoPositiveFitsNothing ==
    [][(res.op = "none" /\ res'.op = "fit" /\ \A k \in 1..Len(res'.y) : res'.y[k] # 1)
          => /\ res'.status = "ValueError"
             /\ Len(res'.y) > 0 => res'.msg = NoPositive
             /\ mod_p' = mod_p
             /\ mod_n' = mod_n]_vars

\* a fit without positives has just failed on a ranker fitted before with
\* positives only
C4_Witness ==
    /\ res.op = "fit"
    /\ Len(res.y) = 2
    /\ res.status = "ValueError"
    /\ res.msg = NoPositive
    /\ mod_p # NotFit
    /\ mod_n = NotFit
    /\ index_n # <<>>

\* C5: supervised fusion.  With both indices queried, a row scores (S_p + 1)/2
\* when S_p > S_n and (-1 - S_n)/2 otherwise; a tie D_p = D_n scores on the
\* negative branch.
C5_SupervisedFusion ==
    (KnOk /\ ranking_ = "supervised" /\ res.has_n) =>
        \A i \in QRows :
            LET S_p == One - res.dist_p[i]
                S_n == One - res.dist_n[i]
            IN  /\ 2 * res.score[i] = IF S_p > S_n THEN S_p + One ELSE -One - S_n
                /\ res.dist_p[i] = res.dist_n[i] => 2 * res.score[i] = -One - S_n

\* a query row half way between its nearest positive and its nearest negative
C5_Witness ==
    /\ KnOk
    /\ ranking_ = "supervised"
    /\ res.has_n
    /\ \E i \in QRows :
          /\ res.dist_p[i] = res.dist_n[i]
          /\ res.dist_p[i] > 0
          /\ 2 * res.score[i] = -One - (One - res.dist_n[i])

\* the training matrix of the last fit, rebuilt from the two fitted indices
TrainX ==
    [g \in 1..(Len(index_p) + Len(index_n)) |->
        IF \E k \in 1..Len(index_p) : index_p[k] = g - 1
        THEN mod_p[CHOOSE k \in 1..Len(index_p) : index_p[k] = g - 1]
        ELSE mod_n[CHOOSE k \in 1..Len(index_n) : index_n[k] = g - 1]]

\* kneighbors has just answered for the training data itself, after a fit with
\* positive and negative samples
SelfQuery ==
    /\ KnOk
    /\ FitOk
    /\ index_n # <<>>
    /\ Len(mod_n) = Len(index_n)
    /\ res.X = TrainX

\* C6: monotonicity on the training data.  Every positive training row scores
\* at least as high as every row that is strictly farther from the positive
\* index.  This is stronger than the claim, which compares only with rows that
\* are strictly farther in both indices; the second conjunct records that no
\* such row exists on the training data, where D_p = 0 for a positive row and
\* D_n = 0 for a negative one.
C6_Monotone ==
    SelfQuery =>
        \A k \in 1..Len(index_p) : \A j \in QRows :
            LET i == index_p[k] + 1
            IN  /\ res.dist_p[j] > res.dist_p[i] => res.score[i] >= res.score[j]
                /\ ~(res.dist_p[j] > res.dist_p[i] /\ res.dist_n[j] > res.dist_n[i])

\* a positive training row and a row farther from the positive index, scored lower
C6_Witness ==
    /\ SelfQuery
    /\ ranking_ = "supervised"
    /\ \E k \in 1..Len(index_p) : \E j \in QRows :
          /\ res.dist_p[j] > res.dist_p[index_p[k] + 1]
          /\ res.score[index_p[k] + 1] > res.score[j]

\* the configured mode disagrees with the exemplars of the last fit
ModeDisagrees ==
    \/ ranking_ = "supervised" /\ index_n = <<>>
    \/ ranking_ = "unsupervised" /\ index_n # <<>>

\* C7 as stated: a ranking outside {supervised, unsupervised} is rejected, and
\* kneighbors fails when the mode disagrees with the exemplars supplied at fit.
C7_NoSilentFallback ==
    /\ ranking_ \in {NoRanker, "supervised", "unsupervised"}
    /\ (res.op = "kneighbors" /\ res.msg # "check_array" /\ FitOk /\ ModeDisagrees)
          => res.status # "ok"

\* C7 amended: a ranking outside {supervised, unsupervised} is rejected by the
\* constructor; after a successful fit a disagreement is no error: a supervised
\* ranker whose negative index was never fitted, and an unsupervised ranker
\* fitted with negatives, both answer with the positive-only score and ind_p.
C7_FallbackToPositiveOnly ==
    /\ ranking_ \in {NoRanker, "supervised", "unsupervised"}
    /\ (res.op = "init" /\ res.status = "ValueError") => ranking_ = NoRanker
    /\ (res.op = "kneighbors" /\ res.msg # "check_array" /\ FitOk) =>
          /\ (ranking_ = "supervised" /\ mod_n = NotFit) =>
                /\ res.status = "ok"
                /\ ~res.has_n
                /\ res.score = PositiveOnly(res.dist_p)
                /\ res.ind = res.ind_p
          /\ (ranking_ = "unsupervised" /\ index_n # <<>>) =>
                /\ res.status = "ok"
                /\ res.has_n
                /\ res.score = PositiveOnly(res.dist_p)
                /\ res.ind = res.ind_p

\* an unsupervised ranker fitted with negatives answers for a row that is
\* nearer to a negative exemplar
C7_Witness ==
    /\ KnOk
    /\ FitOk
    /\ ranking_ = "unsupervised"
    /\ res.has_n
    /\ \E i \in QRows : res.dist_n[i] < res.dist_p[i] /\ res.score[i] > 0

\* the combinations of method and cv that train rejects
Rejected(method, cv) ==
    \/ method \in {"ensemble-stacking", "MLPClassifier"}
    \/ method \notin {"LinearSVC", "LogisticRegression", "xgboost",
                      "NearestCentroid", "NearestNeighbor"}
    \/ cv # "None" /\ method \in {"NearestNeighbor", "NearestCentroid"}
    \/ cv \notin {"None", "fast", "full"}

\* C8: a rejected train raises WrongParameter and leaves cmod, mid, the model
\* directories, the fits and the dumps as they were; predict on a wrapper
\* without a model raises the not-trained error.
C8_TrainRejectsEagerly ==
    [][/\ (wres.op = "none" /\ wres'.op = "train" /\ Rejected(wres'.method, wres'.cv))
             => /\ wres'.status = "WrongParameter"
                /\ UNCHANGED <<cmod, mid, fs>>
       /\ (wres.op = "none" /\ wres'.op = "predict" /\ cmod = NoModel)
             => /\ wres'.status = "WrongParameter"
                /\ wres'.msg = NotTrained
                /\ UNCHANGED <<cmod, mid, fs>>]_vars

\* cv was asked for with the nearest-neighbour method on a trained wrapper
C8_Witness ==
    /\ wres.op = "train"
    /\ wres.status = "WrongParameter"
    /\ wres.method = "NearestNeighbor"
    /\ wres.cv = "fast"
    /\ cmod # NoModel
    /\ fs.dirs > 0

\* C9 as stated: in supervised mode with both indices queried, a positive score
\* comes with the winning index ind_p and a negative score with ind_n.
C9_SignAgreesWithWinner ==
    (KnOk /\ ranking_ = "supervised" /\ res.has_n) =>
        \A i \in QRows :
            /\ res.score[i] > 0 => res.ind[i] = res.ind_p[i]
            /\ res.score[i] < 0 => res.ind[i] = res.ind_n[i]

\* C10 as stated: a fit that raises for want of a positive sample leaves the
\* partitions and both fitted indices as they were.  Stated for a ranker that
\* was fitted before, where kneighbors depends on them.
C10_FailedFitChangesNothing ==
    [][(FitOk /\ res.op = "none" /\ res'.op = "fit" /\ res'.status = "ValueError"
           /\ res'.msg = NoPositive)
          => UNCHANGED <<has_index, index_p, index_n, mod_p, mod_n>>]_vars

\* the entries of a sequence
Range(q) == {q[k] : k \in 1..Len(q)}

\* strictly increasing: the order of the rows is kept and no id is repeated
Increasing(q) == \A k \in 1..(Len(q) - 1) : q[k] < q[k + 1]

\* C11 as stated: after a successful fit the partitions are disjoint, keep the
\* order of the rows and cover every training row once (its positive ids are
\* the rows labelled 1), each fitted index holds as many rows as its current
\* partition has ids, and a kneighbors that returns gives ind_p among the
\* positive ids, ind_n among the negative ids and the winning index among the two.
C11_GlobalIdRemapping ==
    FitOk =>
        /\ Range(index_p) \cap Range(index_n) = {}
        /\ Increasing(index_p)
        /\ Increasing(index_n)
        /\ Range(index_p) \cup Range(index_n) = 0..(Len(index_p) + Len(index_n) - 1)
        /\ (res.op = "fit" /\ res.status = "ok") =>
              /\ Range(index_p) = {k - 1 : k \in {h \in 1..Len(res.y) : res.y[h] = 1}}
              /\ Range(index_n) = {k - 1 : k \in {h \in 1..Len(res.y) : res.y[h] = 0}}
        /\ Len(mod_p) = Len(index_p)
        /\ Len(mod_n) = Len(index_n)
        /\ KnOk =>
              \A i \in QRows :
                  /\ res.ind_p[i] \in Range(index_p)
                  /\ res.has_n => res.ind_n[i] \in Range(index_n)
                  /\ res.ind[i] = res.ind_p[i] \/ (res.has_n /\ res.ind[i] = res.ind_n[i])
====
